---- MODULE Spec2Model ----
(***************************************************************************)
(* A model of termcode (src/termcode.py): the problem store and its        *)
(* identifier repair (reshuffle_id_nums), the listing view                 *)
(* (display_problems), the solution store (write_solution), the execution  *)
(* harness (run_tests) and the interactive loop (TerminalLeetCode.run).    *)
(***************************************************************************)
EXTENDS Integers, Sequences, FiniteSets, TLC

VARIABLES
    files,            \* directory entries of ~/.termcode/problems, in listing order
    files0,           \* the entries as they were before reshuffle_id_nums started
    passes,           \* iterations the outer loop of reshuffle_id_nums still has to run
    shuffled,         \* the local flag of reshuffle_id_nums
    problems,         \* self.problems
    current_problem,  \* self.current_problem: an index into problems, or None
    user_code,        \* self.user_code
    editor,           \* self.editor
    env_EDITOR,       \* os.environ['EDITOR'], or Unset
    solutions,        \* ~/.termcode/solutions: problem id -> file text, or NoFile
    launched,         \* the command last handed to subprocess.call by write_solution
    report,           \* what the last run_tests call printed
    listing,          \* what the last display_problems call printed
    pc                \* where the process is

vars == <<files, files0, passes, shuffled, problems, current_problem, user_code,
          editor, env_EDITOR, solutions, launched, report, listing, pc>>

-----------------------------------------------------------------------------
(* Bounds of the model. *)

MaxFiles == 3      \* directory entries in the store handed to reshuffle_id_nums
MaxId == 3         \* largest identifier a problem file starts with
MaxTests == 3      \* test cases of the problem given to the harness
MaxProblems == 2   \* problems of the store the interactive session navigates
MaxListed == 2     \* problems of the store shown by the listing view

-----------------------------------------------------------------------------
(* Values. *)

None == 0                 \* self.current_problem = None
NoneValue == -1           \* the value None, which a function body "pass" returns
NoFile == "<no file>"     \* solution_file.exists() is false
Unset == "<unset>"        \* EDITOR is not in the environment
NoLaunch == "<none>"      \* write_solution has not called the editor yet
DefaultEditor == "vi"

\* Solution texts the user can leave in the solution file.
\*   ""        an empty file
\*   "syntax"  text that exec() rejects
\*   "comment" text without any def: exec() succeeds and defines nothing
\*   "stub"    def f(a): pass
\*   "first"   def f(a): return a
\*   "inv"     def f(a): return 1 // a
\*   "add"     def f(a, b): return a + b
Codes == {"", "syntax", "comment", "stub", "first", "inv", "add"}

\* function_template texts a problem file can carry.
Templates == {"stub", "comment"}

Editors == {"vi", "emacs", ""}

Difficulties == {"Easy", "medium", "hard", "expert"}
Completions == {"no", "yes", "incomplete"}

\* What run_tests has printed: whether it said "No solution provided yet!",
\* the per-case blocks in the order printed, the number of "Error in your
\* code" lines and the closing line.
NoReport == [no_solution |-> FALSE, cases |-> <<>>, top_errors |-> 0, summary |-> ""]

TestCase(ins, out) == [inputs |-> ins, expected_output |-> out]

TestCases == { TestCase(<<1>>, 1), TestCase(<<0>>, 0), TestCase(<<1>>, 0),
               TestCase(<<1, 1>>, 2) }

RECURSIVE SeqsUpTo(_, _)
SeqsUpTo(S, n) ==
    IF n = 0 THEN {<<>>}
    ELSE LET shorter == SeqsUpTo(S, n - 1)
         IN shorter \cup {Append(s, x) : s \in {t \in shorter : Len(t) = n - 1}, x \in S}

Problem(i, d, t, tcs, c) ==
    [isfile |-> TRUE, id |-> i, difficulty |-> d, function_template |-> t,
     test_cases |-> tcs, completion |-> c]

\* A directory entry that is not a regular file.
Directory == [isfile |-> FALSE]

Perms(n) == {p \in [1..n -> 1..n] : \A i, j \in 1..n : p[i] = p[j] => i = j}

-----------------------------------------------------------------------------
(* Problem store: load_problems. *)

RECURSIVE InsertById(_, _)
InsertById(sorted, p) ==
    IF sorted = <<>> THEN <<p>>
    ELSE IF sorted[Len(sorted)].id <= p.id THEN Append(sorted, p)
    ELSE Append(InsertById(SubSeq(sorted, 1, Len(sorted) - 1), p), sorted[Len(sorted)])

RECURSIVE SortById(_)
SortById(s) ==
    IF s = <<>> THEN <<>>
    ELSE InsertById(SortById(SubSeq(s, 1, Len(s) - 1)), s[Len(s)])

load_problems(fs) == SortById(fs)

-----------------------------------------------------------------------------
(* Identifier repair: reshuffle_id_nums. *)

\* Bump without the increment of id_num.
BumpNothingMut(id_num) == id_num
\* id_num += 1
Bump(id_num) == id_num + 1

\* The inner loop over one os.listdir result: the entries are visited in
\* `order`; `k` is the position reached, `seen` is id_nums_seen, `fs` the
\* directory as rewritten so far and `flag` the value of shuffled.
RECURSIVE ScanDirectory(_, _, _, _, _)
ScanDirectory(fs, order, k, seen, flag) ==
    IF k > Len(fs) THEN [files |-> fs, shuffled |-> flag]
    ELSE LET entry == fs[order[k]]
         IN IF ~entry.isfile
              THEN ScanDirectory(fs, order, k + 1, seen, flag)
            ELSE IF entry.id \notin seen
              THEN ScanDirectory(fs, order, k + 1, seen \cup {entry.id}, flag)
            ELSE ScanDirectory([fs EXCEPT ![order[k]].id = Bump(entry.id)],
                               order, k + 1, seen, TRUE)

\* OuterPasses for a repair that scans the directory once only.
OuterPassesSingle(fs) == IF Len(fs) = 0 THEN 0 ELSE 1
\* The outer loop runs once per entry that os.listdir returned when it started.
OuterPasses(fs) == Len(fs)

\* python termcode.py --shuffle
ShuffleStart ==
    /\ pc = "main"
    /\ passes' = OuterPasses(files)
    /\ shuffled' = FALSE
    /\ pc' = "shuffle"
    /\ UNCHANGED <<files, files0, problems, current_problem, user_code, editor,
                   env_EDITOR, solutions, launched, report, listing>>

\* One iteration of the outer loop; os.listdir may return any order.
ShufflePass ==
    /\ pc = "shuffle"
    /\ passes > 0
    /\ \E order \in Perms(Len(files)) :
         LET r == ScanDirectory(files, order, 1, {}, shuffled)
         IN /\ files' = r.files
            /\ shuffled' = r.shuffled
    /\ passes' = passes - 1
    /\ UNCHANGED <<files0, problems, current_problem, user_code, editor,
                   env_EDITOR, solutions, launched, report, listing, pc>>

\* The loop is over; "No duplicate ID's detected!" is printed when ~shuffled.
ShuffleEnd ==
    /\ pc = "shuffle"
    /\ passes = 0
    /\ pc' = "shuffle_done"
    /\ UNCHANGED <<files, files0, passes, shuffled, problems, current_problem,
                   user_code, editor, env_EDITOR, solutions, launched, report, listing>>

\* A problem file as reshuffle_id_nums reads it: only its id matters.
ShuffleEntries ==
    {Problem(i, "Easy", "stub", <<>>, "no") : i \in 1..MaxId} \cup {Directory}

InitShuffle ==
    /\ files \in SeqsUpTo(ShuffleEntries, MaxFiles)
    /\ files0 = files
    /\ passes = 0
    /\ shuffled = FALSE
    /\ problems = <<>>
    /\ current_problem = None
    /\ user_code = ""
    /\ editor = DefaultEditor
    /\ env_EDITOR = Unset
    /\ solutions = [i \in 1..MaxId |-> NoFile]
    /\ launched = NoLaunch
    /\ report = NoReport
    /\ listing = <<>>
    /\ pc = "main"

NextShuffle == ShuffleStart \/ ShufflePass \/ ShuffleEnd

SpecShuffle == InitShuffle /\ [][NextShuffle]_vars

\* The positions of the problem files of a directory.
FilePositions(fs) == {i \in 1..Len(fs) : fs[i].isfile}
NoSharedId(fs) ==
    \A i, j \in FilePositions(fs) : i # j => fs[i].id # fs[j].id

\* The store holds exactly one pair of files with the same identifier, k, and
\* no file with k + 1.
OnePairSharing(fs, i, j) ==
    /\ i \in FilePositions(fs) /\ j \in FilePositions(fs) /\ i < j
    /\ fs[i].id = fs[j].id
    /\ \A a, b \in FilePositions(fs) :
          (a < b /\ fs[a].id = fs[b].id) => (a = i /\ b = j)
    /\ \A a \in FilePositions(fs) : fs[a].id # fs[i].id + 1

\* C4: when exactly two problem files share identifier k and no file holds
\* k + 1, then after reshuffle_id_nums one of the two holds k, the other k + 1,
\* every other entry is as it was, and no two files share an identifier.
PairRepaired ==
    pc = "shuffle_done" =>
      \A i, j \in 1..Len(files0) :
        OnePairSharing(files0, i, j) =>
          /\ {files[i].id, files[j].id} = {files0[i].id, files0[i].id + 1}
          /\ \A a \in 1..Len(files0) : a \notin {i, j} => files[a] = files0[a]
          /\ files[i] = [files0[i] EXCEPT !.id = files[i].id]
          /\ files[j] = [files0[j] EXCEPT !.id = files[j].id]
          /\ NoSharedId(files)

PairRepairedWitness ==
    /\ pc = "shuffle_done"
    /\ shuffled
    /\ \E i, j \in 1..Len(files0) :
         /\ OnePairSharing(files0, i, j)
         /\ Len(files0) >= 3
         /\ files[i].id # files[j].id

\* C5: whatever the store, once reshuffle_id_nums has completed no two problem
\* files share an identifier.
RepairedStoreHasNoSharedId == pc = "shuffle_done" => NoSharedId(files)

\* A store with three files of one identifier, and one whose bumped identifier
\* met an existing one, has been repaired.
RepairedStoreWitness ==
    /\ pc = "shuffle_done"
    /\ NoSharedId(files)
    /\ \E i, j, k \in FilePositions(files0) :
         /\ i < j /\ j < k
         /\ files0[i].id = files0[j].id
         /\ \/ files0[j].id = files0[k].id
            \/ files0[k].id = files0[i].id + 1

-----------------------------------------------------------------------------
(* Listing view: display_problems. *)

\* str.lower() on the difficulty texts of the model.
Lower(d) == IF d = "Easy" THEN "easy" ELSE d

\* The line printed for a problem: prob_id, the completion mark and the
\* coloured difficulty.
Formatted(p) == [id |-> p.id, completion |-> p.completion, difficulty |-> p.difficulty]

\* The list a problem's line is appended to; "" when no branch of the
\* if/elif chain takes it.
BucketOf(p) ==
    IF p.completion = "yes" THEN "completed"
    ELSE IF Lower(p.difficulty) = "easy" THEN "easy"
    ELSE IF Lower(p.difficulty) = "medium" THEN "med"
    ELSE IF Lower(p.difficulty) = "hard" THEN "hard"
    ELSE ""

\* The lines appended to list `b` by the loop over self.problems.
RECURSIVE Appended(_, _)
Appended(ps, b) ==
    IF ps = <<>> THEN <<>>
    ELSE LET rest == Appended(SubSeq(ps, 1, Len(ps) - 1), b)
             p == ps[Len(ps)]
         IN IF BucketOf(p) = b THEN Append(rest, Formatted(p)) ELSE rest

\* result = incomplete + easy + med + hard + completed; nothing is ever
\* appended to incomplete.
display_problems(ps) ==
    <<>> \o Appended(ps, "easy") \o Appended(ps, "med") \o Appended(ps, "hard")
         \o Appended(ps, "completed")

-----------------------------------------------------------------------------
(* What Python does with the texts of the model. *)

\* exec(self.user_code, namespace) returns normally.
ExecOK(code) == code # "syntax"

\* The names exec() leaves in the namespace.
Defines(code) == IF code \in {"stub", "first", "inv", "add"} THEN {"f"} ELSE {}

\* function_template.split('def ')[1] exists.
HasDef(template) == template # "comment"

\* function_template.split('def ')[1].split('(')[0]
FuncName(template) == "f"

Arity(code) == IF code = "add" THEN 2 ELSE 1

Returned(v) == [raised |-> FALSE, value |-> v]
Raised == [raised |-> TRUE, value |-> NoneValue]

\* user_function(*args): the value returned, or an exception of class
\* Exception, the class both handlers of run_tests catch (a TypeError on a
\* wrong number of arguments, a ZeroDivisionError in 1 // 0).
Call(code, args) ==
    IF Len(args) # Arity(code) THEN Raised
    ELSE IF code = "first" THEN Returned(args[1])
    ELSE IF code = "inv" THEN (IF args[1] = 0 THEN Raised ELSE Returned(1 \div args[1]))
    ELSE IF code = "add" THEN Returned(args[1] + args[2])
    ELSE Returned(NoneValue)

-----------------------------------------------------------------------------
(* Execution harness: run_tests. *)

\* NoSolution with the check of self.user_code left out.
NoSolutionNeverMut(code) == FALSE
\* if not self.user_code
NoSolution(code) == code = ""

\* The try block up to user_function = namespace[func_name] completes.
SolutionLoads(code, template) ==
    /\ ExecOK(code)
    /\ HasDef(template)
    /\ FuncName(template) \in Defines(code)

\* The inner try block for one test case.
CaseOutcome(code, test_case) ==
    LET result == IF Len(test_case.inputs) = 1
                    THEN Call(code, <<test_case.inputs[1]>>)
                    ELSE Call(code, test_case.inputs)
    IN IF result.raised THEN "errored"
       ELSE IF result.value = test_case.expected_output THEN "passed"
       ELSE "failed"

\* AllPassedAfter with the assignment in the except branch left out.
AllPassedKeptOnErrorMut(all_passed, outcome) ==
    IF outcome = "failed" THEN FALSE ELSE all_passed
\* all_passed after a case with the given outcome.
AllPassedAfter(all_passed, outcome) ==
    IF outcome = "passed" THEN all_passed ELSE FALSE

\* RunCases with the loop left at the first case that throws.
RECURSIVE RunCasesStopAtErrorMut(_, _, _, _, _)
RunCasesStopAtErrorMut(code, test_cases, i, all_passed, printed) ==
    IF i > Len(test_cases) THEN [cases |-> printed, all_passed |-> all_passed]
    ELSE LET outcome == CaseOutcome(code, test_cases[i])
             line == [index |-> i, outcome |-> outcome]
         IN IF outcome = "errored"
              THEN [cases |-> Append(printed, line), all_passed |-> FALSE]
              ELSE RunCasesStopAtErrorMut(code, test_cases, i + 1,
                                          AllPassedAfter(all_passed, outcome),
                                          Append(printed, line))

\* The for loop over enumerate(test_cases, 1) from case i on: `printed` holds
\* the blocks printed so far.
RECURSIVE RunCases(_, _, _, _, _)
RunCases(code, test_cases, i, all_passed, printed) ==
    IF i > Len(test_cases) THEN [cases |-> printed, all_passed |-> all_passed]
    ELSE LET outcome == CaseOutcome(code, test_cases[i])
         IN RunCases(code, test_cases, i + 1, AllPassedAfter(all_passed, outcome),
                     Append(printed, [index |-> i, outcome |-> outcome]))

\* Harness with the loading of the solution moved into the per-case try block.
HarnessLoadsPerCaseMut(code, problem) ==
    IF SolutionLoads(code, problem.function_template)
      THEN LET r == RunCases(code, problem.test_cases, 1, TRUE, <<>>)
           IN [NoReport EXCEPT !.cases = r.cases,
                               !.summary = IF r.all_passed THEN "congrats" ELSE "some_failed"]
      ELSE [NoReport EXCEPT !.cases = [i \in 1..Len(problem.test_cases) |->
                                          [index |-> i, outcome |-> "errored"]],
                            !.summary = "some_failed"]
\* The outer try block and its handler.
Harness(code, problem) ==
    IF SolutionLoads(code, problem.function_template)
      THEN LET r == RunCases(code, problem.test_cases, 1, TRUE, <<>>)
           IN [NoReport EXCEPT !.cases = r.cases,
                               !.summary = IF r.all_passed THEN "congrats" ELSE "some_failed"]
      ELSE [NoReport EXCEPT !.top_errors = 1]

-----------------------------------------------------------------------------
(* Solution store: get_editor_command and write_solution. *)

get_editor_command(passed) ==
    IF passed # "" THEN passed
    ELSE IF env_EDITOR # Unset THEN env_EDITOR
    ELSE editor

\* solution_file, keyed by the id in its name.
SolutionFile(problem) == problem.id

-----------------------------------------------------------------------------
(* The interactive loop: TerminalLeetCode.run. *)

SampleCases == 2

\* next((p for p in self.problems if p.id == problem_id), None)
FirstWithId(ps, problem_id) ==
    IF \E i \in 1..Len(ps) : ps[i].id = problem_id
      THEN CHOOSE i \in 1..Len(ps) :
             /\ ps[i].id = problem_id
             /\ \A j \in 1..(i - 1) : ps[j].id # problem_id
      ELSE None

\* What the user may type as a number.
Choices == 0..(MaxProblems + 1)

Current == problems[current_problem]

\* Listing: display_problems() and the prompt.
DisplayProblems ==
    /\ pc = "loop"
    /\ current_problem = None
    /\ listing' = display_problems(problems)
    /\ pc' = "input"
    /\ UNCHANGED <<files, files0, passes, shuffled, problems, current_problem,
                   user_code, editor, env_EDITOR, solutions, launched, report>>

\* Listing, 'q'.
ListingQuit ==
    /\ pc = "input"
    /\ current_problem = None
    /\ pc' = "exited"
    /\ UNCHANGED <<files, files0, passes, shuffled, problems, current_problem,
                   user_code, editor, env_EDITOR, solutions, launched, report, listing>>

\* Listing, a number: the problem becomes current, or "Uknown Problem Input
\* Detected" is printed.
ListingSelect ==
    /\ pc = "input"
    /\ current_problem = None
    /\ \E problem_id \in Choices :
         current_problem' = FirstWithId(problems, problem_id)
    /\ pc' = "loop"
    /\ UNCHANGED <<files, files0, passes, shuffled, problems, user_code, editor,
                   env_EDITOR, solutions, launched, report, listing>>

\* Listing, anything else: int() raises ValueError, "Uknown Input Detected".
ListingInvalid ==
    /\ pc = "input"
    /\ current_problem = None
    /\ pc' = "loop"
    /\ UNCHANGED <<files, files0, passes, shuffled, problems, current_problem,
                   user_code, editor, env_EDITOR, solutions, launched, report, listing>>

\* Detail: display_problem(), which indexes test_cases[0] and test_cases[1],
\* and the prompt.
DisplayProblem ==
    /\ pc = "loop"
    /\ current_problem # None
    /\ pc' = IF Len(Current.test_cases) < SampleCases THEN "crashed" ELSE "input"
    /\ UNCHANGED <<files, files0, passes, shuffled, problems, current_problem,
                   user_code, editor, env_EDITOR, solutions, launched, report, listing>>

\* Detail, 'q'.
DetailQuit ==
    /\ pc = "input"
    /\ current_problem # None
    /\ pc' = "exited"
    /\ UNCHANGED <<files, files0, passes, shuffled, problems, current_problem,
                   user_code, editor, env_EDITOR, solutions, launched, report, listing>>

\* Detail, 'w': write_solution(). subprocess.call raises when the command
\* cannot be started; otherwise the editor leaves some text in the file.
DetailWrite ==
    /\ pc = "input"
    /\ current_problem # None
    /\ LET f == SolutionFile(Current)
           seeded == IF solutions[f] = NoFile
                       THEN [solutions EXCEPT ![f] = Current.function_template]
                       ELSE solutions
       IN /\ launched' = get_editor_command(editor)
          /\ \/ /\ solutions' = seeded
                /\ pc' = "crashed"
                /\ UNCHANGED user_code
             \/ \E text \in Codes :
                  /\ solutions' = [seeded EXCEPT ![f] = text]
                  /\ user_code' = text
                  /\ pc' = "loop"
    /\ UNCHANGED <<files, files0, passes, shuffled, problems, current_problem,
                   editor, env_EDITOR, report, listing>>

\* Detail, 't': run_tests() up to its return or its input().
DetailTest ==
    /\ pc = "input"
    /\ current_problem # None
    /\ IF NoSolution(user_code)
         THEN /\ report' = [NoReport EXCEPT !.no_solution = TRUE]
              /\ pc' = "loop"
         ELSE /\ report' = Harness(user_code, Current)
              /\ pc' = "ack"
    /\ UNCHANGED <<files, files0, passes, shuffled, problems, current_problem,
                   user_code, editor, env_EDITOR, solutions, launched, listing>>

\* "Press Enter to continue..." is answered.
Acknowledge ==
    /\ pc = "ack"
    /\ pc' = "loop"
    /\ UNCHANGED <<files, files0, passes, shuffled, problems, current_problem,
                   user_code, editor, env_EDITOR, solutions, launched, report, listing>>

\* DetailReturn with self.user_code left as it is.
DetailReturnKeepsCodeMut ==
    /\ pc = "input"
    /\ current_problem # None
    /\ current_problem' = None
    /\ pc' = "loop"
    /\ UNCHANGED <<files, files0, passes, shuffled, problems, user_code, editor,
                   env_EDITOR, solutions, launched, report, listing>>
\* Detail, 'r'.
DetailReturn ==
    /\ pc = "input"
    /\ current_problem # None
    /\ current_problem' = None
    /\ user_code' = ""
    /\ pc' = "loop"
    /\ UNCHANGED <<files, files0, passes, shuffled, problems, editor, env_EDITOR,
                   solutions, launched, report, listing>>

\* Detail, anything else: "Uknown Input Detected".
DetailInvalid ==
    /\ pc = "input"
    /\ current_problem # None
    /\ pc' = "loop"
    /\ UNCHANGED <<files, files0, passes, shuffled, problems, current_problem,
                   user_code, editor, env_EDITOR, solutions, launched, report, listing>>

Next ==
    \/ DisplayProblems
    \/ ListingQuit
    \/ ListingSelect
    \/ ListingInvalid
    \/ DisplayProblem
    \/ DetailQuit
    \/ DetailWrite
    \/ DetailTest
    \/ Acknowledge
    \/ DetailReturn
    \/ DetailInvalid

\* The state TerminalLeetCode() leaves for a store `fs` (in glob order), a
\* config file naming editor `ed` and an environment with EDITOR = `env`.
Constructed(fs, ed, env) ==
    /\ files = fs
    /\ files0 = fs
    /\ passes = 0
    /\ shuffled = FALSE
    /\ problems = load_problems(fs)
    /\ current_problem = None
    /\ user_code = ""
    /\ editor = ed
    /\ env_EDITOR = env
    /\ solutions = [i \in {fs[k].id : k \in 1..Len(fs)} |-> NoFile]
    /\ launched = NoLaunch
    /\ report = NoReport
    /\ listing = <<>>
    /\ pc = "loop"

\* The stores the navigation of the session is explored on: problems with one
\* or two test cases, identifiers possibly shared.
SessionProblems ==
    {Problem(i, "Easy", "stub", tcs, "no") :
        i \in 1..MaxProblems,
        tcs \in {<<TestCase(<<1>>, 1)>>, <<TestCase(<<1>>, 1), TestCase(<<0>>, 0)>>}}

Init ==
    \E fs \in SeqsUpTo(SessionProblems, MaxProblems) :
        Constructed(fs, DefaultEditor, Unset)

Spec == Init /\ [][Next]_vars

\* The stores the harness is explored on: one problem, any test cases.
InitHarness ==
    \E t \in Templates, tcs \in SeqsUpTo(TestCases, MaxTests) :
        Constructed(<<Problem(1, "Easy", t, tcs, "no")>>, DefaultEditor, Unset)

SpecHarness == InitHarness /\ [][Next]_vars

\* The configurations the editor choice is explored on.
InitEditor ==
    \E ed \in Editors, env \in {Unset, "nano"}, t \in Templates :
        Constructed(<<Problem(1, "Easy", t, <<TestCase(<<1>>, 1), TestCase(<<0>>, 0)>>, "no")>>,
                    ed, env)

SpecEditor == InitEditor /\ [][Next]_vars

\* The stores the listing view is explored on.
ListedProblems ==
    {Problem(i, d, "stub", <<>>, c) :
        i \in 1..MaxListed, d \in Difficulties, c \in Completions}

InitListing ==
    \E fs \in SeqsUpTo(ListedProblems, MaxListed) :
        Constructed(fs, DefaultEditor, Unset)

NextListing == DisplayProblems

SpecListing == InitListing /\ [][NextListing]_vars

-----------------------------------------------------------------------------
(* Properties of the execution harness (SpecHarness). *)

\* run_tests has printed its report and waits at "Press Enter to continue...".
AwaitingAck == pc = "ack"

\* Calling the user's function on the declared inputs returns the expected output.
ReturnsExpected(code, test_case) ==
    LET r == Call(code, test_case.inputs)
    IN ~r.raised /\ r.value = test_case.expected_output

Throws(code, test_case) == Call(code, test_case.inputs).raised

\* C1: for a solution that loads and defines the target function, run_tests
\* prints "Congratulations" if and only if every test case returned its
\* expected output; one mismatch or one exception is enough to lose it.
CongratulationsIffEveryCasePasses ==
    (AwaitingAck /\ SolutionLoads(user_code, Current.function_template)) =>
        /\ report.summary \in {"congrats", "some_failed"}
        /\ report.summary = "congrats" <=>
             \A i \in 1..Len(Current.test_cases) :
                 ReturnsExpected(user_code, Current.test_cases[i])

\* One case threw, every other case passed, and the summary is the failure one.
CongratulationsWitness ==
    /\ AwaitingAck
    /\ SolutionLoads(user_code, Current.function_template)
    /\ Len(report.cases) >= 2
    /\ report.summary = "some_failed"
    /\ \E i \in 1..Len(report.cases) :
         /\ report.cases[i].outcome = "errored"
         /\ \A j \in 1..Len(report.cases) : j # i => report.cases[j].outcome = "passed"

\* C2: an exception in one test case marks that case errored and no more:
\* every declared case is evaluated once, in declared order, whatever the
\* earlier cases did.
EveryCaseEvaluatedOnceInOrder ==
    (AwaitingAck /\ SolutionLoads(user_code, Current.function_template)) =>
        /\ Len(report.cases) = Len(Current.test_cases)
        /\ \A i \in 1..Len(report.cases) :
             /\ report.cases[i].index = i
             /\ report.cases[i].outcome = "errored" <=>
                  Throws(user_code, Current.test_cases[i])

\* A case that threw is followed by a case that passed.
EveryCaseEvaluatedWitness ==
    /\ AwaitingAck
    /\ \E i, j \in 1..Len(report.cases) :
         /\ i < j
         /\ report.cases[i].outcome = "errored"
         /\ report.cases[j].outcome = "passed"

\* C3: when executing the solution text itself fails, run_tests prints one
\* top-level error, evaluates no test case and prints no summary.
TopLevelFailureAbortsRun ==
    (AwaitingAck /\ ~ExecOK(user_code)) =>
        /\ report.top_errors = 1
        /\ report.cases = <<>>
        /\ report.summary = ""
        /\ ~report.no_solution

TopLevelFailureWitness ==
    /\ AwaitingAck
    /\ user_code = "syntax"
    /\ Len(Current.test_cases) >= 2
    /\ report.top_errors = 1

-----------------------------------------------------------------------------
(* Properties of the editor choice (SpecEditor). *)

\* C6: the command write_solution launches is the value of EDITOR when it is
\* set, and the stored editor only when it is not.
EnvironmentEditorTakesPrecedence ==
    launched # NoLaunch =>
        launched = IF env_EDITOR # Unset THEN env_EDITOR ELSE editor

-----------------------------------------------------------------------------
(* Properties of the interactive loop (Spec). *)

\* C7: every error gives control back to the loop: the loop is left only
\* through quit, never through an exception.
LoopEndsOnlyOnQuit == pc # "crashed"

\* C8: every "test solution" command runs the harness on the problem's test
\* cases, shows the per-case results and waits for the acknowledgment, the
\* current problem staying the same.
EveryTestCommandRunsHarness ==
    [][DetailTest =>
         /\ pc' = "ack"
         /\ ~report'.no_solution
         /\ Len(report'.cases) = Len(Current.test_cases)
         /\ current_problem' = current_problem]_vars

\* C8 as amended: a "test solution" command given while the in-memory solution
\* text is not empty runs the harness, shows the per-case results or the one
\* top-level error, and waits for the acknowledgment before going back to
\* Detail on the same problem; given while the text is empty, it prints "No
\* solution provided yet!" and goes back to Detail at once.
TestCommandRunsHarnessOnSolution ==
    [][/\ DetailTest =>
            /\ current_problem' = current_problem
            /\ IF user_code = ""
                 THEN /\ pc' = "loop"
                      /\ report' = [NoReport EXCEPT !.no_solution = TRUE]
                 ELSE /\ pc' = "ack"
                      /\ ~report'.no_solution
                      /\ \/ /\ Len(report'.cases) = Len(Current.test_cases)
                            /\ report'.top_errors = 0
                         \/ /\ report'.cases = <<>>
                            /\ report'.top_errors = 1
       /\ pc = "ack" => (pc' = "loop" /\ current_problem' = current_problem)]_vars

\* A test command was refused although the current problem has a solution file
\* with text in it.
TestCommandWitness ==
    /\ pc = "loop"
    /\ current_problem # None
    /\ report.no_solution
    /\ user_code = ""
    /\ solutions[SolutionFile(Current)] \notin {NoFile, ""}

\* C10: the in-memory solution text is empty whenever no problem is current,
\* and when it is not empty it is the text of the current problem's solution
\* file.
SolutionTextIsOfCurrentProblem ==
    /\ current_problem = None => user_code = ""
    /\ user_code # "" =>
         /\ current_problem # None
         /\ user_code = solutions[SolutionFile(Current)]

\* A solution was written for one problem, then another problem was visited
\* and a different solution written for it.
SolutionTextWitness ==
    /\ pc = "input"
    /\ current_problem # None
    /\ user_code # ""
    /\ \E other \in DOMAIN solutions :
         /\ other # SolutionFile(Current)
         /\ solutions[other] \notin {NoFile, user_code}

-----------------------------------------------------------------------------
(* Properties of the listing view (SpecListing). *)

Count(s, x) == Cardinality({i \in 1..Len(s) : s[i] = x})

BucketRank(line) ==
    IF line.completion = "yes" THEN 5
    ELSE IF Lower(line.difficulty) = "easy" THEN 2
    ELSE IF Lower(line.difficulty) = "medium" THEN 3
    ELSE IF Lower(line.difficulty) = "hard" THEN 4
    ELSE 1

\* C9: the listing shows every loaded problem exactly once, bucket after bucket
\* (easy, medium, hard, completed, a completed problem counting as completed
\* whatever its difficulty), and in ascending identifier order inside a bucket.
ListingShowsEveryProblemOnce ==
    (pc = "input" /\ current_problem = None) =>
        /\ Len(listing) = Len(problems)
        /\ \A i \in 1..Len(problems) :
             Count(listing, Formatted(problems[i])) =
                 Cardinality({j \in 1..Len(problems) :
                                 Formatted(problems[j]) = Formatted(problems[i])})
        /\ \A a, b \in 1..Len(listing) :
             a < b =>
               /\ BucketRank(listing[a]) <= BucketRank(listing[b])
               /\ BucketRank(listing[a]) = BucketRank(listing[b]) =>
                    listing[a].id <= listing[b].id

====
